---- MODULE Spec2Model ----
(***************************************************************************)
(* Fitness tracker backend: the REST handlers over the in-memory record    *)
(* list fitnessRecords and the persistence adapters of the five revisions   *)
(* of main.go:                                                              *)
(*   "v1"      src/main.go 1-116           single file, append-only POST    *)
(*   "dir"     src/main.go 117-473         year/month files + GitHub mirror *)
(*   "daily"   src/main.go 476-1034        GitHub repository, daily files   *)
(*   "monthly" src/unnamed/part_001 1-480  GitHub repository, month files   *)
(*   "refresh" src/unnamed/part_001 483-669 single file, reload ticker      *)
(* A Go string is a sequence of one-character strings; a slice is a         *)
(* sequence (a nil slice and an empty slice are both <<>>).                 *)
(***************************************************************************)
EXTENDS Integers, Sequences, FiniteSets, TLC

VARIABLES
    rev,             \* which revision of main.go is running
    token,           \* os.Getenv("UP_TOK") # ""
    fitnessRecords,  \* var fitnessRecords []FitnessData
    dataFile,        \* fitness_data.json: <<>> when missing, else <<content>>
    dataDir,         \* fitness_data/<year>/<month>.json on the local disk
    github,          \* the objects of the GitHub repository, by path
    last,            \* the handler that ran last; of a POST also the request
                     \* and the response
    http,            \* the last request as the middleware and the router
                     \* passed it on, <<>> before the first
    net              \* the POST handlers that are between two requests to
                     \* GitHub, <<>> when handlers run one at a time

vars == <<rev, token, fitnessRecords, dataFile, dataDir, github, last,
          http, net>>

----------------------------------------------------------------------------
(* Bounds of the model *)

\* longest record list a POST may still extend
MaxRecords == 2

----------------------------------------------------------------------------
(* Strings *)

Digits == <<"0", "1", "2", "3", "4", "5", "6", "7", "8", "9">>

DigitSet == {Digits[i] : i \in 1..10}

DigitTable == [c \in DigitSet |-> (CHOOSE i \in 1..10 : Digits[i] = c) - 1]

isDigit(c) == c \in DigitSet

DigitVal(c) == DigitTable[c]

\* byte order of the characters that occur in names and dates
Ord(c) ==
    CASE c = "-" -> 45
      [] c = "." -> 46
      [] isDigit(c) -> 48 + DigitVal(c)
      [] c = "a" -> 97
      [] c = "e" -> 101
      [] c = "g" -> 103
      [] c = "i" -> 105
      [] c = "j" -> 106
      [] c = "k" -> 107
      [] c = "l" -> 108
      [] c = "n" -> 110
      [] c = "o" -> 111
      [] c = "p" -> 112
      [] c = "s" -> 115
      [] c = "t" -> 116
      [] OTHER -> 127

\* strings.HasPrefix
HasPrefix(s, p) == Len(p) <= Len(s) /\ SubSeq(s, 1, Len(p)) = p

\* strings.HasSuffix
HasSuffix(s, x) ==
    Len(x) <= Len(s) /\ SubSeq(s, Len(s) - Len(x) + 1, Len(s)) = x

\* s < t in Go's string order (bytewise)
StrLess(s, t) ==
    \E i \in 1..(Len(t)) :
        /\ i <= Len(s) + 1
        /\ SubSeq(s, 1, i - 1) = SubSeq(t, 1, i - 1)
        /\ (i = Len(s) + 1 \/ Ord(s[i]) < Ord(t[i]))

\* the names of a directory listing, in name order
RECURSIVE SortNames(_)
SortNames(S) ==
    IF S = {} THEN <<>>
    ELSE LET m == CHOOSE x \in S : \A y \in S \ {x} : StrLess(x, y)
         IN  <<m>> \o SortNames(S \ {m})

\* fmt.Sprintf("%d", n) for n >= 0
RECURSIVE Itoa(_)
Itoa(n) == IF n < 10 THEN <<Digits[n + 1]>>
           ELSE Itoa(n \div 10) \o <<Digits[(n % 10) + 1]>>

\* fmt.Sprintf("%02d", n) for n >= 0
Pad2(n) == IF n < 10 THEN <<"0">> \o Itoa(n) ELSE Itoa(n)

JsonExt == <<".", "j", "s", "o", "n">>
GitKeep == <<".", "g", "i", "t", "k", "e", "e", "p">>

----------------------------------------------------------------------------
(* time.Parse("2006-01-02", s) *)

isLeap(y) == y % 4 = 0 /\ (y % 100 # 0 \/ y % 400 = 0)

daysIn(m, y) ==
    IF m = 2 THEN (IF isLeap(y) THEN 29 ELSE 28)
    ELSE IF m \in {4, 6, 9, 11} THEN 30 ELSE 31

Num2(s, i) == 10 * DigitVal(s[i]) + DigitVal(s[i + 1])

\* four digits, "-", two digits, "-", two digits, nothing after
WellFormed(s) ==
    /\ Len(s) = 10
    /\ \A i \in {1, 2, 3, 4, 6, 7, 9, 10} : isDigit(s[i])
    /\ s[5] = "-" /\ s[8] = "-"

\* [err |-> TRUE] or the year, month and day of the time parsed
timeParse(s) ==
    IF ~WellFormed(s) THEN [err |-> TRUE, year |-> 0, month |-> 0, day |-> 0]
    ELSE LET y == 100 * Num2(s, 1) + Num2(s, 3)
             m == Num2(s, 6)
             d == Num2(s, 9)
         IN  IF m < 1 \/ m > 12 \/ d < 1 \/ d > daysIn(m, y)
             THEN [err |-> TRUE, year |-> 0, month |-> 0, day |-> 0]
             ELSE [err |-> FALSE, year |-> y, month |-> m, day |-> d]

----------------------------------------------------------------------------
(* Records and requests *)

\* time.Now().Format("2006-01-02"): the clock stays on this day
Today == <<"2", "0", "2", "4", "-", "0", "1", "-", "1", "5">>

SameMonth == <<"2", "0", "2", "4", "-", "0", "1", "-", "2", "0">>

\* well formed, but February has no 30th: time.Parse refuses it
NoSuchDay == <<"2", "0", "2", "4", "-", "0", "2", "-", "3", "0">>

OtherYear == <<"2", "0", "2", "3", "-", "1", "2", "-", "3", "1">>

Empty == <<>>

\* the date strings of the requests
Dates == {Today, SameMonth, NoSuchDay, OtherYear, Empty}

\* time.Parse("2006-01-02", date) of the dates of the model, computed once
ParseTable == [d \in Dates |-> timeParse(d)]

ParseDate(date) == IF date \in Dates THEN ParseTable[date] ELSE timeParse(date)

\* the {year} and {month} path variables of the requests
YearInputs == {<<"2", "0", "2", "4">>, <<"2", "0">>}

MonthInputs == {<<"0", "1">>, <<"0", "2">>}

\* Body stands for every field of FitnessData but Date (and LastUpdate, which
\* only the daily revision has: 0 when absent, 1 once the server stamped it)
FitnessData(date, body, stamp) ==
    [Date |-> date, Body |-> body, LastUpdate |-> stamp]

\* the payloads of the requests; 0 is the payload of the zero value
Bodies == {1, 2}

\* var data FitnessData
ZeroRecord == FitnessData(Empty, 0, 0)

\* the bodies a client may POST: JSON of a dated record (today's with either
\* payload, the other dates with the first), or bytes that are no JSON
RequestBodies ==
    {[json |-> TRUE, rec |-> FitnessData(Today, b, 0)] : b \in Bodies}
        \cup {[json |-> TRUE, rec |-> FitnessData(d, 1, 0)] :
                  d \in Dates \ {Today, Empty}}
        \cup {[json |-> FALSE, rec |-> ZeroRecord]}

\* json.NewDecoder(r.Body).Decode(&data), its error ignored
Decode(reqBody) == IF reqBody.json THEN reqBody.rec ELSE ZeroRecord

\* json.MarshalIndent(records, "", "  "): the bytes of a file
MarshalIndent(records) == [valid |-> TRUE, records |-> records]

\* json.Unmarshal(data, &records)
Unmarshal(data) ==
    IF data.valid THEN [err |-> FALSE, records |-> data.records]
    ELSE [err |-> TRUE, records |-> <<>>]

\* for i, record := range records { if record.Date == date {...} }: the first
\* index whose record has the date, 0 when the loop ends without one
FirstIndex(records, date) ==
    IF \E i \in 1..Len(records) : records[i].Date = date
    THEN CHOOSE i \in 1..Len(records) :
            /\ records[i].Date = date
            /\ \A j \in 1..(i - 1) : records[j].Date # date
    ELSE 0

\* a faulty scan: the matching record is dropped and data goes to the end
Upsert_toEnd(records, data) ==
    Append(SelectSeq(records, LAMBDA r : r.Date # data.Date), data)

\* the store after createFitnessData's scan: replace in place, else append
Upsert(records, data) ==
    LET i == FirstIndex(records, data.Date)
    IN  IF i > 0 THEN [records EXCEPT ![i] = data] ELSE Append(records, data)

\* the responses
Response(status, body) == [status |-> status, body |-> body]

\* http.NotFound
NotFound == Response(404, <<>>)

\* http.Error(w, "Invalid date format", http.StatusBadRequest)
BadRequest == Response(400, <<>>)

\* json.NewEncoder(w).Encode(v) on an untouched ResponseWriter: 200
Encode(body) == Response(200, body)

\* a faulty scan: the loop starts at the second record
ScanByDate_fromSecond(records, date) ==
    IF \E i \in 2..Len(records) : records[i].Date = date
    THEN Encode(<<records[CHOOSE i \in 2..Len(records) :
                              records[i].Date = date]>>)
    ELSE NotFound

\* the scan of getFitnessDataByDate and getRawJsonByDate
ScanByDate(records, date) ==
    LET i == FirstIndex(records, date)
    IN  IF i > 0 THEN Encode(<<records[i]>>) ELSE NotFound

----------------------------------------------------------------------------
(* Paths.  A path is the sequence of its segments under fitness_data/. *)

\* a faulty key: the month is printed with %d
monthFile_unpadded(t) == <<Itoa(t.year), Itoa(t.month) \o JsonExt>>

\* fmt.Sprintf("%d/%02d", t.Year(), t.Month()) and "fitness_data/%s/%s.json"
monthFile(t) == <<Itoa(t.year), Pad2(t.month) \o JsonExt>>

\* fmt.Sprintf("fitness_data/%d/%02d/%02d.json", t.Year(), t.Month(), t.Day())
dayFile(t) == <<Itoa(t.year), Pad2(t.month), Pad2(t.day) \o JsonExt>>

\* the two paths of the dates of the model that parse, computed once
ValidDates == {d \in Dates : ~ParseTable[d].err}

MonthPathTable == [d \in ValidDates |-> monthFile(ParseTable[d])]

DayPathTable == [d \in ValidDates |-> dayFile(ParseTable[d])]

MonthPath(date) == MonthPathTable[date]

DayPath(date) == DayPathTable[date]

\* a store maps the paths of its files to their bytes
Put(store, path, data) ==
    [q \in (DOMAIN store) \cup {path} |-> IF q = path THEN data ELSE store[q]]

NoFiles == [q \in {} |-> MarshalIndent(<<>>)]

\* the entries of directory dir, in name order (os.ReadDir; the contents API).
\* A path that is a file, or is missing, has no entries.
Entries(store, dir) ==
    SortNames({q[Len(dir) + 1] :
        q \in {x \in DOMAIN store : Len(x) > Len(dir) /\ HasPrefix(x, dir)}})

\* the records of the file at path, none when it is missing or no JSON
ReadRecords(store, path) ==
    IF path \notin DOMAIN store THEN <<>>
    ELSE LET u == Unmarshal(store[path])
         IN  IF u.err THEN <<>> ELSE u.records

\* for _, name := range names: append the records of every *.json file of dir
RECURSIVE ReadFiles(_, _, _)
ReadFiles(store, dir, names) ==
    IF names = <<>> THEN <<>>
    ELSE (IF HasSuffix(Head(names), JsonExt)
          THEN ReadRecords(store, Append(dir, Head(names)))
          ELSE <<>>) \o ReadFiles(store, dir, Tail(names))

\* for _, name := range names: the same one directory level further down
RECURSIVE ReadDirs(_, _, _)
ReadDirs(store, dir, names) ==
    IF names = <<>> THEN <<>>
    ELSE LET sub == Append(dir, Head(names))
         IN  ReadFiles(store, sub, Entries(store, sub))
                 \o ReadDirs(store, dir, Tail(names))

\* and two levels further down
RECURSIVE ReadDirs2(_, _, _)
ReadDirs2(store, dir, names) ==
    IF names = <<>> THEN <<>>
    ELSE LET sub == Append(dir, Head(names))
         IN  ReadDirs(store, sub, Entries(store, sub))
                 \o ReadDirs2(store, dir, Tail(names))

\* grouped := make(map[string][]FitnessData): the month files of the records
\* whose date parses, each with its records in list order
MonthPaths(records) ==
    {MonthPath(records[i].Date) :
        i \in {j \in 1..Len(records) : ~ParseDate(records[j].Date).err}}

InMonth(r, path) ==
    ~ParseDate(r.Date).err /\ MonthPath(r.Date) = path

Grouped(records, path) ==
    SelectSeq(records, LAMBDA r : InMonth(r, path))

----------------------------------------------------------------------------
(* The GitHub repository behind the contents API *)

\* the version of the object at path: <<>> for "", else its blob
getGitHubFileSHA(repo, path) ==
    IF path \in DOMAIN repo THEN <<repo[path]>> ELSE <<>>

\* GET contents/<path> answers 200: an object at or under the path
checkGitHubPathExists(repo, path) ==
    \E q \in DOMAIN repo : HasPrefix(q, path)

\* PUT contents/<path>: the server stores the content when the request arrives
\* and carries the sha of the version it holds (none for a new object)
PutContents(repo, path, sha, data, arrives) ==
    LET held == IF path \in DOMAIN repo THEN <<repo[path]>> ELSE <<>>
    IN  IF arrives /\ sha = held THEN Put(repo, path, data) ELSE repo

\* updateGitHubFile on repository repo; up: the requests reach GitHub
updateGitHubFile(repo, path, data, up) ==
    IF ~token THEN repo
    ELSE LET sha == getGitHubFileSHA(repo, path)
         IN  PutContents(repo, path, sha, data, up)

\* createGitHubDirectory: PUT <dir>/.gitkeep with empty content and no sha
createGitHubDirectory(repo, dir, up) ==
    PutContents(repo, Append(dir, GitKeep), <<>>,
                [valid |-> FALSE, records |-> <<>>], up)

\* ensureGitHubDirectories: for i := 1; i < len(parts)-1; i++
RECURSIVE ensureGitHubDirectories(_, _, _, _)
ensureGitHubDirectories(repo, path, i, up) ==
    IF ~token \/ i >= Len(path) THEN repo
    ELSE LET dir == SubSeq(path, 1, i)
             made == IF up /\ checkGitHubPathExists(repo, dir) THEN repo
                     ELSE createGitHubDirectory(repo, dir, up)
         IN  ensureGitHubDirectories(made, path, i + 1, up)

----------------------------------------------------------------------------
(* saveData *)

\* v1 and refresh: the whole list into fitness_data.json
saveData_file(records, written) ==
    IF written THEN <<MarshalIndent(records)>> ELSE dataFile

\* dir: one file per month, then its GitHub mirror; written: os.WriteFile
\* succeeds; a month whose local write fails is not sent to GitHub
RECURSIVE saveData_dir(_, _, _, _, _, _)
saveData_dir(records, paths, dir, repo, written, up) ==
    IF paths = {} THEN [dir |-> dir, repo |-> repo]
    ELSE LET path == CHOOSE q \in paths : TRUE
             data == MarshalIndent(Grouped(records, path))
         IN  IF ~written
             THEN saveData_dir(records, paths \ {path}, dir, repo, written, up)
             ELSE saveData_dir(records, paths \ {path},
                               Put(dir, path, data),
                               updateGitHubFile(repo, path, data, up),
                               written, up)

\* monthly: one GitHub object per month
RECURSIVE saveData_monthly(_, _, _, _)
saveData_monthly(records, paths, repo, up) ==
    IF paths = {} THEN repo
    ELSE LET path == CHOOSE q \in paths : TRUE
             data == MarshalIndent(Grouped(records, path))
         IN  saveData_monthly(records, paths \ {path},
                              updateGitHubFile(repo, path, data, up), up)

\* daily: for _, record := range fitnessRecords, one GitHub object per record
RECURSIVE saveData_daily(_, _, _)
saveData_daily(records, repo, up) ==
    IF records = <<>> THEN repo
    ELSE LET t == ParseDate(Head(records).Date)
         IN  IF t.err THEN saveData_daily(Tail(records), repo, up)
             ELSE LET path == DayPath(Head(records).Date)
                      data == MarshalIndent(<<Head(records)>>)
                      dirs == ensureGitHubDirectories(repo, path, 1, up)
                  IN  saveData_daily(Tail(records),
                          updateGitHubFile(dirs, path, data, up), up)

----------------------------------------------------------------------------
(* loadData *)

\* v1 and refresh: json.Unmarshal(data, &fitnessRecords); a missing file or
\* bytes that are no JSON leave the list as it is
\* a faulty load: the list is emptied before the file is read
loadData_reset(records) ==
    IF dataFile = <<>> THEN <<>>
    ELSE LET u == Unmarshal(dataFile[1])
         IN  IF u.err THEN <<>> ELSE u.records

loadData_file(records) ==
    IF dataFile = <<>> THEN records
    ELSE LET u == Unmarshal(dataFile[1])
         IN  IF u.err THEN records ELSE u.records

\* dir: from an empty list, every <year>/<month>.json in directory order
\* a faulty loadData: the list is not emptied first
loadData_appending ==
    fitnessRecords \o ReadDirs(dataDir, <<>>, Entries(dataDir, <<>>))

loadData_dir == ReadDirs(dataDir, <<>>, Entries(dataDir, <<>>))

\* monthly: loadFromGitHub over fitness_data/<year>/<month>.json
loadData_monthly ==
    IF ~token THEN <<>> ELSE ReadDirs(github, <<>>, Entries(github, <<>>))

\* daily: loadFromGitHub over fitness_data/<year>/<month>/<day>.json
loadData_daily ==
    IF ~token THEN <<>> ELSE ReadDirs2(github, <<>>, Entries(github, <<>>))

\* loadData() with fitnessRecords = records when it is called
loadData(records) ==
    CASE rev \in {"v1", "refresh"} -> loadData_file(records)
      [] rev = "dir" -> loadData_dir
      [] rev = "monthly" -> loadData_monthly
      [] rev = "daily" -> loadData_daily

\* loadFromGitHubFile: the raw URL needs no token
loadFromGitHubFile(path) == ReadRecords(github, path)

\* loadFromGitHubByPath: the *.json files of one directory
loadFromGitHubByPath(path) ==
    IF ~token THEN <<>> ELSE ReadFiles(github, path, Entries(github, path))

\* loadFromGitHubByYearPath: loadFromGitHubByPath of every entry of the year
loadFromGitHubByYearPath(yearPath) ==
    IF ~token THEN <<>>
    ELSE ReadDirs(github, yearPath, Entries(github, yearPath))

\* if fitnessRecords == nil || len(fitnessRecords) == 0 { loadData() }
\* a faulty lazy load: loadData runs on every request
LazyLoad_always == loadData(fitnessRecords)

LazyLoad ==
    IF Len(fitnessRecords) = 0 THEN loadData(fitnessRecords)
    ELSE fitnessRecords

----------------------------------------------------------------------------
(* The handlers: the list each leaves in fitnessRecords, and its response *)

Result(store, resp) == [store |-> store, resp |-> resp]

\* GET /api/fitness
getFitnessData_v1 == Result(fitnessRecords, Encode(fitnessRecords))

getFitnessData_lazy == Result(LazyLoad, Encode(LazyLoad))

getFitnessData_daily ==
    LET dailyRecord == loadFromGitHubFile(DayPath(Today))
    IN  Result(fitnessRecords,
               IF Len(dailyRecord) > 0 THEN Encode(<<dailyRecord[1]>>)
               ELSE NotFound)

\* a faulty handler: the month file is answered whole
getFitnessData_wholeMonth ==
    Result(fitnessRecords, Encode(loadFromGitHubFile(MonthPath(Today))))

getFitnessData_monthly ==
    LET monthRecords == loadFromGitHubFile(MonthPath(Today))
    IN  Result(fitnessRecords, ScanByDate(monthRecords, Today))

\* GET /api/fitness/all
getAllFitnessData_lazy == Result(LazyLoad, Encode(LazyLoad))

\* GET /api/fitness/{date}
getFitnessDataByDate_v1(date) ==
    Result(fitnessRecords, ScanByDate(fitnessRecords, date))

getFitnessDataByDate_lazy(date) == Result(LazyLoad, ScanByDate(LazyLoad, date))

getFitnessDataByDate_daily(date) ==
    LET t == ParseDate(date)
    IN  IF t.err THEN Result(fitnessRecords, BadRequest)
        ELSE LET dailyRecord == loadFromGitHubFile(DayPath(date))
             IN  Result(fitnessRecords,
                        IF Len(dailyRecord) > 0 THEN Encode(<<dailyRecord[1]>>)
                        ELSE NotFound)

\* a faulty handler: a date that does not parse is answered like a missing one
getFitnessDataByDate_lenient(date) ==
    LET t == ParseDate(date)
    IN  IF t.err THEN Result(fitnessRecords, NotFound)
        ELSE Result(fitnessRecords,
                    ScanByDate(loadFromGitHubFile(MonthPath(date)), date))

getFitnessDataByDate_monthly(date) ==
    LET t == ParseDate(date)
    IN  IF t.err THEN Result(fitnessRecords, BadRequest)
        ELSE Result(fitnessRecords,
                    ScanByDate(loadFromGitHubFile(MonthPath(date)), date))

\* GET /get?date=: if date == "" { date = time.Now().Format("2006-01-02") }
RawDate(date) == IF date = Empty THEN Today ELSE date

getRawJsonByDate_plain(date) ==
    Result(fitnessRecords, ScanByDate(fitnessRecords, RawDate(date)))

getRawJsonByDate_lazy(date) ==
    Result(LazyLoad, ScanByDate(LazyLoad, RawDate(date)))

\* a faulty handler: the year filter is left out
getFitnessDataByYear_unfiltered(year) == Result(LazyLoad, Encode(LazyLoad))

\* GET /api/fitness/year/{year}
getFitnessDataByYear_dir(year) ==
    Result(LazyLoad,
           Encode(SelectSeq(LazyLoad, LAMBDA r : HasPrefix(r.Date, year))))

getFitnessDataByYear_daily(year) ==
    Result(fitnessRecords, Encode(loadFromGitHubByYearPath(<<year>>)))

\* a faulty handler: an empty month directory listing is answered with 404
getFitnessDataByYear_orNotFound(year) ==
    LET records == loadFromGitHubByPath(<<year>>)
    IN  Result(fitnessRecords,
               IF records = <<>> THEN NotFound ELSE Encode(records))

getFitnessDataByYear_monthly(year) ==
    Result(fitnessRecords, Encode(loadFromGitHubByPath(<<year>>)))

\* a faulty filter: the date is compared as a string prefix, unparsed
MonthMatches_prefix(r, year, month) ==
    HasPrefix(r.Date, year \o <<"-">> \o month)

\* GET /api/fitness/year/{year}/month/{month}
MonthMatches(r, year, month) ==
    LET t == ParseDate(r.Date)
    IN  ~t.err /\ Itoa(t.year) = year /\ Pad2(t.month) = month

getFitnessDataByMonth_dir(year, month) ==
    Result(LazyLoad,
           Encode(SelectSeq(LazyLoad, LAMBDA r : MonthMatches(r, year, month))))

getFitnessDataByMonth_daily(year, month) ==
    Result(fitnessRecords, Encode(loadFromGitHubByPath(<<year, month>>)))

getFitnessDataByMonth_monthly(year, month) ==
    Result(fitnessRecords,
           Encode(loadFromGitHubFile(<<year, month \o JsonExt>>)))

----------------------------------------------------------------------------
(* The state machine *)

Revisions == {"v1", "dir", "daily", "monthly", "refresh"}

\* the revisions whose GET handlers read fitnessRecords
InMemory == {"v1", "dir", "refresh"}

\* the revisions whose GET handlers read the GitHub repository
Remote == {"daily", "monthly"}

\* a faulty handler: a write that fails is answered with 500
Posted_failing(reqBody, resp, saved) ==
    [op |-> "createFitnessData", posted |-> <<reqBody>>,
     status |-> IF saved THEN resp.status ELSE 500,
     body |-> IF saved THEN resp.body ELSE <<>>, saved |-> saved]

\* last after a POST (saved: every write of its saveData was made and
\* succeeded), and after any other handler
Posted(reqBody, resp, saved) ==
    [op |-> "createFitnessData", posted |-> <<reqBody>>,
     status |-> resp.status, body |-> resp.body, saved |-> saved]

Ran(op) ==
    [op |-> op, posted |-> <<>>, status |-> 0, body |-> <<>>, saved |-> FALSE]

\* no request has passed the middleware and the router yet
NoRequest == <<>>

\* no handler is between two requests to GitHub
NoCalls == <<>>

\* main() of a fresh deployment: nothing stored, loadData finds nothing
Init ==
    /\ rev \in Revisions
    /\ token \in (IF rev \in {"v1", "refresh"} THEN {FALSE} ELSE BOOLEAN)
    /\ fitnessRecords = <<>>
    /\ dataFile = <<>>
    /\ dataDir = NoFiles
    /\ github = NoFiles
    /\ last = Ran("main")
    /\ http = NoRequest
    /\ net = NoCalls

\* a GET handler: it may fill fitnessRecords, it writes no storage; its
\* response is res.resp
Get(op, res) ==
    /\ fitnessRecords' = res.store
    /\ last' = Ran(op)
    /\ UNCHANGED <<rev, token, dataFile, dataDir, github, http, net>>

\* the handler each revision registers for a route: r.HandleFunc(...)
serveFitnessData ==
    CASE rev = "v1" -> getFitnessData_v1
      [] rev \in {"dir", "refresh"} -> getFitnessData_lazy
      [] rev = "daily" -> getFitnessData_daily
      [] rev = "monthly" -> getFitnessData_monthly

serveByDate(date) ==
    CASE rev = "v1" -> getFitnessDataByDate_v1(date)
      [] rev \in {"dir", "refresh"} -> getFitnessDataByDate_lazy(date)
      [] rev = "daily" -> getFitnessDataByDate_daily(date)
      [] rev = "monthly" -> getFitnessDataByDate_monthly(date)

serveRawJson(date) ==
    IF rev \in {"dir", "refresh"} THEN getRawJsonByDate_lazy(date)
    ELSE getRawJsonByDate_plain(date)

serveByYear(year) ==
    CASE rev = "dir" -> getFitnessDataByYear_dir(year)
      [] rev = "daily" -> getFitnessDataByYear_daily(year)
      [] rev = "monthly" -> getFitnessDataByYear_monthly(year)

serveByMonth(year, month) ==
    CASE rev = "dir" -> getFitnessDataByMonth_dir(year, month)
      [] rev = "daily" -> getFitnessDataByMonth_daily(year, month)
      [] rev = "monthly" -> getFitnessDataByMonth_monthly(year, month)

\* the revisions that have the year and month routes
Calendar == {"dir", "daily", "monthly"}

getFitnessData == Get("getFitnessData", serveFitnessData)

getAllFitnessData ==
    /\ rev # "v1"
    /\ Get("getAllFitnessData", getAllFitnessData_lazy)

\* the router binds {date} to one non-empty path segment
getFitnessDataByDate ==
    \E date \in Dates \ {Empty} : Get("getFitnessDataByDate", serveByDate(date))

getRawJsonByDate ==
    \E date \in Dates : Get("getRawJsonByDate", serveRawJson(date))

getFitnessDataByYear ==
    /\ rev \in Calendar
    /\ \E year \in YearInputs : Get("getFitnessDataByYear", serveByYear(year))

getFitnessDataByMonth ==
    /\ rev \in Calendar
    /\ \E year \in YearInputs, month \in MonthInputs :
        Get("getFitnessDataByMonth", serveByMonth(year, month))

\* the list createFitnessData leaves in fitnessRecords
createRecords_v1(data) == Append(fitnessRecords, data)

\* a faulty handler: the scan for the date is left out
createRecords_noScan(data) == Append(fitnessRecords, data)

createRecords_upsert(data) == Upsert(fitnessRecords, data)

\* data.LastUpdate = time.Now().Format("2006-01-02 15:04:05")
Stamped(data) == [data EXCEPT !.LastUpdate = 1]

\* a POST the model admits: the list stays within MaxRecords, or keeps its length
WithinBound(records) ==
    Len(records) <= MaxRecords \/ Len(records) = Len(fitnessRecords)

\* whether the requests of one saveData reach GitHub (no request without token)
Reach == IF token THEN BOOLEAN ELSE {FALSE}

\* createFitnessData of each revision on the body it reads from r.Body
create_v1(reqBody) ==
    /\ rev = "v1"
    /\ \E written \in BOOLEAN :
        LET data == Decode(reqBody)
            records == createRecords_v1(data)
        IN  /\ WithinBound(records)
            /\ fitnessRecords' = records
            /\ dataFile' = saveData_file(records, written)
            /\ last' = Posted(reqBody, Encode(<<data>>), written)
            /\ UNCHANGED <<rev, token, dataDir, github>>

create_refresh(reqBody) ==
    /\ rev = "refresh"
    /\ \E written \in BOOLEAN :
        LET data == Decode(reqBody)
            records == createRecords_upsert(data)
        IN  /\ WithinBound(records)
            /\ fitnessRecords' = records
            /\ dataFile' = saveData_file(records, written)
            /\ last' = Posted(reqBody, Encode(<<data>>), written)
            /\ UNCHANGED <<rev, token, dataDir, github>>

create_dir(reqBody) ==
    /\ rev = "dir"
    /\ LET data == Decode(reqBody)
           records == createRecords_upsert(data)
       IN  /\ WithinBound(records)
           /\ \E written \in BOOLEAN, up \in Reach :
               LET saved == saveData_dir(records, MonthPaths(records), dataDir,
                                         github, written, up)
               IN  /\ dataDir' = saved.dir
                   /\ github' = saved.repo
                   /\ last' = Posted(reqBody, Encode(<<data>>),
                                     written /\ (token => up))
           /\ fitnessRecords' = records
           /\ UNCHANGED <<rev, token, dataFile>>

create_monthly(reqBody) ==
    /\ rev = "monthly"
    /\ LET data == Decode(reqBody)
           records == createRecords_upsert(data)
       IN  /\ WithinBound(records)
           /\ \E up \in Reach :
               /\ github' = saveData_monthly(records, MonthPaths(records),
                                             github, up)
               /\ last' = Posted(reqBody, Encode(<<data>>), up)
           /\ fitnessRecords' = records
           /\ UNCHANGED <<rev, token, dataFile, dataDir>>

create_daily(reqBody) ==
    /\ rev = "daily"
    /\ LET data == Stamped(Decode(reqBody))
           records == createRecords_upsert(data)
       IN  /\ WithinBound(records)
           /\ \E up \in Reach :
               /\ github' = saveData_daily(records, github, up)
               /\ last' = Posted(reqBody, Encode(<<data>>), up)
           /\ fitnessRecords' = records
           /\ UNCHANGED <<rev, token, dataFile, dataDir>>

\* POST /api/fitness with any of the bodies
createFitnessData_v1 ==
    /\ \E reqBody \in RequestBodies : create_v1(reqBody)
    /\ UNCHANGED <<http, net>>

createFitnessData_refresh ==
    /\ \E reqBody \in RequestBodies : create_refresh(reqBody)
    /\ UNCHANGED <<http, net>>

createFitnessData_dir ==
    /\ \E reqBody \in RequestBodies : create_dir(reqBody)
    /\ UNCHANGED <<http, net>>

createFitnessData_monthly ==
    /\ \E reqBody \in RequestBodies : create_monthly(reqBody)
    /\ UNCHANGED <<http, net>>

createFitnessData_daily ==
    /\ \E reqBody \in RequestBodies : create_daily(reqBody)
    /\ UNCHANGED <<http, net>>

\* for range ticker.C { loadData() } of the refresh revision
AutoRefresh ==
    /\ rev = "refresh"
    /\ fitnessRecords' = loadData_file(fitnessRecords)
    /\ last' = Ran("autoRefresh")
    /\ UNCHANGED <<rev, token, dataFile, dataDir, github, http, net>>

\* the process ends and main() runs again over the storage left behind:
\* fitnessRecords is nil, and v1, dir and refresh call loadData()
Restart ==
    /\ fitnessRecords' = IF rev \in InMemory THEN loadData(<<>>) ELSE <<>>
    /\ last' = Ran("main")
    /\ UNCHANGED <<rev, token, dataFile, dataDir, github, http, net>>

Next ==
    \/ getFitnessData
    \/ getAllFitnessData
    \/ getFitnessDataByDate
    \/ getRawJsonByDate
    \/ getFitnessDataByYear
    \/ getFitnessDataByMonth
    \/ createFitnessData_v1
    \/ createFitnessData_refresh
    \/ createFitnessData_dir
    \/ createFitnessData_monthly
    \/ createFitnessData_daily
    \/ AutoRefresh
    \/ Restart

Spec == Init /\ [][Next]_vars

----------------------------------------------------------------------------
(* The HTTP layer: the logging middleware and the router in front of the
   handlers.  A path is the sequence of its segments. *)

Seg_api == <<"a", "p", "i">>
Seg_fitness == <<"f", "i", "t", "n", "e", "s", "s">>
Seg_all == <<"a", "l", "l">>
Seg_year == <<"y", "e", "a", "r">>
Seg_month == <<"m", "o", "n", "t", "h">>
Seg_get == <<"g", "e", "t">>

\* a literal segment of a route template, and a {name} segment
Lit(seg) == [lit |-> TRUE, seg |-> seg, name |-> ""]

Var(name) == [lit |-> FALSE, seg |-> <<>>, name |-> name]

\* r.HandleFunc(template, handler).Methods(method)
HandleFunc(method, template, handler) ==
    [method |-> method, template |-> template, handler |-> handler]

Path_fitness == <<Lit(Seg_api), Lit(Seg_fitness)>>

\* the route table of the first revision
Routes_v1 ==
    << HandleFunc("GET", Path_fitness, "getFitnessData"),
       HandleFunc("POST", Path_fitness, "createFitnessData"),
       HandleFunc("GET", Path_fitness \o <<Var("date")>>, "getFitnessDataByDate"),
       HandleFunc("GET", <<Lit(Seg_get)>>, "getRawJsonByDate") >>

\* a faulty table: the {date} route is registered before the fixed segments
Routes_dateFirst ==
    << HandleFunc("GET", Path_fitness, "getFitnessData"),
       HandleFunc("GET", Path_fitness \o <<Var("date")>>, "getFitnessDataByDate"),
       HandleFunc("GET", Path_fitness \o <<Lit(Seg_all)>>, "getAllFitnessData"),
       HandleFunc("GET", Path_fitness \o <<Lit(Seg_year), Var("year")>>,
                  "getFitnessDataByYear"),
       HandleFunc("GET", Path_fitness \o <<Lit(Seg_year), Var("year"),
                                           Lit(Seg_month), Var("month")>>,
                  "getFitnessDataByMonth"),
       HandleFunc("POST", Path_fitness, "createFitnessData"),
       HandleFunc("GET", <<Lit(Seg_get)>>, "getRawJsonByDate") >>

\* the route table of the dir, daily and monthly revisions
Routes_calendar ==
    << HandleFunc("GET", Path_fitness, "getFitnessData"),
       HandleFunc("GET", Path_fitness \o <<Lit(Seg_all)>>, "getAllFitnessData"),
       HandleFunc("GET", Path_fitness \o <<Lit(Seg_year), Var("year")>>,
                  "getFitnessDataByYear"),
       HandleFunc("GET", Path_fitness \o <<Lit(Seg_year), Var("year"),
                                           Lit(Seg_month), Var("month")>>,
                  "getFitnessDataByMonth"),
       HandleFunc("POST", Path_fitness, "createFitnessData"),
       HandleFunc("GET", Path_fitness \o <<Var("date")>>, "getFitnessDataByDate"),
       HandleFunc("GET", <<Lit(Seg_get)>>, "getRawJsonByDate") >>

\* the route table of the refresh revision
Routes_refresh ==
    << HandleFunc("GET", Path_fitness, "getFitnessData"),
       HandleFunc("GET", Path_fitness \o <<Lit(Seg_all)>>, "getAllFitnessData"),
       HandleFunc("POST", Path_fitness, "createFitnessData"),
       HandleFunc("GET", Path_fitness \o <<Var("date")>>, "getFitnessDataByDate"),
       HandleFunc("GET", <<Lit(Seg_get)>>, "getRawJsonByDate") >>

Routes ==
    CASE rev = "v1" -> Routes_v1
      [] rev \in Calendar -> Routes_calendar
      [] rev = "refresh" -> Routes_refresh

\* mux: a template matches a path of as many segments, literal segments
\* equal and a {name} segment not empty
MatchPath(template, path) ==
    /\ Len(template) = Len(path)
    /\ \A i \in 1..Len(template) :
            IF template[i].lit THEN path[i] = template[i].seg
            ELSE path[i] # <<>>

\* mux.Vars(r)[name] of a matched template
VarOf(template, path, name) ==
    path[CHOOSE i \in 1..Len(template) :
            ~template[i].lit /\ template[i].name = name]

\* mux.Router.Match: the first route, in registration order, whose template
\* and method match; 405 when only templates match, 404 when nothing does
Dispatch(method, path) ==
    LET hits == {i \in 1..Len(Routes) :
                    /\ MatchPath(Routes[i].template, path)
                    /\ Routes[i].method = method}
    IN  IF hits # {}
        THEN LET i == CHOOSE k \in hits : \A m \in hits : k <= m
             IN  [handler |-> Routes[i].handler, template |-> Routes[i].template]
        ELSE IF \E i \in 1..Len(Routes) : MatchPath(Routes[i].template, path)
             THEN [handler |-> "methodNotAllowed", template |-> <<>>]
             ELSE [handler |-> "notFound", template |-> <<>>]

\* http.StatusMethodNotAllowed
MethodNotAllowed == Response(405, <<>>)

\* r.Body: bytes that are read once, front to back
Stream(data) == [data |-> data, pos |-> 1]

Unread(body) == SubSeq(body.data, body.pos, Len(body.data))

\* io.ReadAll(r.Body): the unread bytes, and the body left at its end
ReadAll(body) ==
    [data |-> Unread(body), body |-> [body EXCEPT !.pos = Len(body.data) + 1]]

\* the bytes of a body that is no JSON, as of an empty one
NoJson == [json |-> FALSE, rec |-> ZeroRecord]

\* what json.NewDecoder(r.Body) has to decode
BodyRead(body) == IF Unread(body) = <<>> THEN NoJson ELSE Unread(body)[1]

\* a faulty middleware: r.Body is not replaced after it was read
loggingMiddleware_drained(r) == [r EXCEPT !.Body = ReadAll(r.Body).body]

\* loggingMiddleware, request side: body, _ := io.ReadAll(r.Body);
\* r.Body = io.NopCloser(strings.NewReader(string(body)))
loggingMiddleware(r) == [r EXCEPT !.Body = Stream(ReadAll(r.Body).data)]

\* net/http's ResponseWriter: the first WriteHeader fixes the status, a Write
\* before any WriteHeader sends 200
NewWriter == [wroteHeader |-> FALSE, status |-> 0, body |-> <<>>]

WriteHeader(w, code) ==
    IF w.wroteHeader THEN w
    ELSE [w EXCEPT !.wroteHeader = TRUE, !.status = code]

Write(w, b) ==
    LET h == IF w.wroteHeader THEN w ELSE WriteHeader(w, 200)
    IN  [h EXCEPT !.body = @ \o b]

\* wrapper := &responseWrapper{ResponseWriter: w, statusCode: 200}
responseWrapper(w) == [ResponseWriter |-> w, statusCode |-> 200]

\* func (rw *responseWrapper) WriteHeader(code int)
rw_WriteHeader(rw, code) ==
    [statusCode |-> code, ResponseWriter |-> WriteHeader(rw.ResponseWriter, code)]

\* Write is the embedded ResponseWriter's
rw_Write(rw, b) == [rw EXCEPT !.ResponseWriter = Write(@, b)]

\* what a handler does with its w for the response resp: Encode writes the
\* body, http.NotFound and http.Error call WriteHeader and then write
Answer(w, resp) ==
    IF resp.status = 200 THEN Write(w, resp.body)
    ELSE Write(WriteHeader(w, resp.status), resp.body)

rw_Answer(rw, resp) ==
    IF resp.status = 200 THEN rw_Write(rw, resp.body)
    ELSE rw_Write(rw_WriteHeader(rw, resp.status), resp.body)

\* an incoming request; Query is r.URL.Query().Get("date")
Request(method, path, query, data) ==
    [Method |-> method, Path |-> path, Query |-> query, Body |-> Stream(data)]

Url_fitness == <<Seg_api, Seg_fitness>>

\* the requests clients send
GetPaths ==
    {Url_fitness, Url_fitness \o <<Seg_all>>, Url_fitness \o <<Today>>,
     Url_fitness \o <<Seg_year, <<"2", "0", "2", "4">>>>,
     Url_fitness \o <<Seg_year, <<"2", "0", "2", "4">>, Seg_month, <<"0", "1">>>>}

PostBodies ==
    {[json |-> TRUE, rec |-> FitnessData(Today, 1, 0)],
     [json |-> TRUE, rec |-> FitnessData(SameMonth, 1, 0)],
     NoJson}

Requests ==
    {Request("GET", path, Empty, <<>>) : path \in GetPaths}
        \cup {Request("GET", <<Seg_get>>, date, <<>>) : date \in {Today, Empty}}
        \cup {Request("POST", Url_fitness, Empty, <<b>>) : b \in PostBodies}
        \cup {Request("POST", Url_fitness \o <<Seg_all>>, Empty, <<NoJson>>)}

\* main(): the first revision serves the router itself, the later ones wrap
\* it in loggingMiddleware
Wrapped == rev # "v1"

\* the request as the router and the handler get it
Passed(req) == IF Wrapped THEN loggingMiddleware(req) ELSE req

\* what the middleware and the router leave of a request: the route taken,
\* the body sent and the body the handler had to read, the response the
\* handler produced, what the client got, and the status in the log line
Served(req, route, resp) ==
    LET r == Passed(req)
        plain == Answer(NewWriter, resp)
        wrapper == rw_Answer(responseWrapper(NewWriter), resp)
        w == IF Wrapped THEN wrapper.ResponseWriter ELSE plain
    IN  [method |-> req.Method, path |-> req.Path, handler |-> route.handler,
         sent |-> req.Body.data, got |-> Unread(r.Body),
         produced |-> resp, status |-> w.status, body |-> w.body,
         wrapped |-> Wrapped,
         logged |-> IF Wrapped THEN wrapper.statusCode ELSE 0]

\* the GET handler of a route, run on the request
serveGet(route, r) ==
    CASE route.handler = "getFitnessData" -> serveFitnessData
      [] route.handler = "getAllFitnessData" -> getAllFitnessData_lazy
      [] route.handler = "getFitnessDataByDate" ->
            serveByDate(VarOf(route.template, r.Path, "date"))
      [] route.handler = "getRawJsonByDate" -> serveRawJson(r.Query)
      [] route.handler = "getFitnessDataByYear" ->
            serveByYear(VarOf(route.template, r.Path, "year"))
      [] route.handler = "getFitnessDataByMonth" ->
            serveByMonth(VarOf(route.template, r.Path, "year"),
                         VarOf(route.template, r.Path, "month"))
      [] route.handler = "methodNotAllowed" -> Result(fitnessRecords, MethodNotAllowed)
      [] route.handler = "notFound" -> Result(fitnessRecords, NotFound)

create(reqBody) ==
    \/ create_v1(reqBody)
    \/ create_refresh(reqBody)
    \/ create_dir(reqBody)
    \/ create_monthly(reqBody)
    \/ create_daily(reqBody)

\* one request through the middleware, the router and a GET handler
ServeGet ==
    \E req \in Requests :
        LET r == Passed(req)
            route == Dispatch(r.Method, r.Path)
        IN  /\ route.handler # "createFitnessData"
            /\ LET res == serveGet(route, r)
               IN  /\ fitnessRecords' = res.store
                   /\ last' = Ran(route.handler)
                   /\ http' = Served(req, route, res.resp)
            /\ UNCHANGED <<rev, token, dataFile, dataDir, github, net>>

\* one request through the middleware, the router and createFitnessData
ServePost ==
    \E req \in Requests :
        LET r == Passed(req)
            route == Dispatch(r.Method, r.Path)
        IN  /\ route.handler = "createFitnessData"
            /\ create(BodyRead(r.Body))
            /\ http' = Served(req, route, Response(last'.status, last'.body))
            /\ UNCHANGED net

NextHTTP ==
    \/ ServeGet
    \/ ServePost

SpecHTTP == Init /\ [][NextHTTP]_vars

----------------------------------------------------------------------------
(* loadData of the dir revision over a data directory as it may be found on
   disk: month files that parse and that do not, names without .json, a file
   where a year directory is expected, a directory where a month file is. *)

Garbage == [valid |-> FALSE, records |-> <<>>]

Notes == <<"n", "o", "t", "e", "s">>

\* fitness_data/2023/12.json and fitness_data/2024/01.json
Path_2023_12 == MonthPath(OtherYear)

Path_2024_01 == MonthPath(Today)

\* fitness_data/2024/notes
Path_notes == <<Path_2024_01[1], Notes>>

\* fitness_data/01.json, a file beside the year directories
Path_stray == <<Path_2024_01[2]>>

\* fitness_data/2024/notes.json/.gitkeep: notes.json is a directory
Path_inside == <<Path_2024_01[1], Notes \o JsonExt, GitKeep>>

\* what each of these may hold
FoundAt(path) ==
    CASE path = Path_2023_12 ->
            {MarshalIndent(<<FitnessData(OtherYear, 1, 0)>>), Garbage}
      [] path = Path_2024_01 ->
            {MarshalIndent(<<FitnessData(Today, 1, 0)>>),
             MarshalIndent(<<FitnessData(Today, 2, 0),
                             FitnessData(SameMonth, 1, 0)>>),
             Garbage}
      [] path = Path_notes -> {MarshalIndent(<<FitnessData(NoSuchDay, 1, 0)>>)}
      [] path = Path_stray -> {MarshalIndent(<<FitnessData(SameMonth, 2, 0)>>)}
      [] path = Path_inside -> {MarshalIndent(<<>>)}

FoundPaths == {Path_2023_12, Path_2024_01, Path_notes, Path_stray, Path_inside}

Directories ==
    {d \in UNION {[S -> UNION {FoundAt(q) : q \in FoundPaths}] :
                      S \in SUBSET FoundPaths} :
        \A q \in DOMAIN d : d[q] \in FoundAt(q)}

\* a server of the dir revision at any moment, over any such directory
InitLoad ==
    /\ rev = "dir"
    /\ token = FALSE
    /\ fitnessRecords \in {<<>>, <<FitnessData(Today, 1, 0)>>}
    /\ dataFile = <<>>
    /\ dataDir \in Directories
    /\ github = NoFiles
    /\ last = Ran("serving")
    /\ http = NoRequest
    /\ net = NoCalls

\* main() calls loadData at every start; getAllFitnessData calls it when
\* the list is empty
NextLoad ==
    \/ Restart
    \/ getAllFitnessData

SpecLoad == InitLoad /\ [][NextLoad]_vars

----------------------------------------------------------------------------
(* The monthly revision request by request to GitHub: net/http runs every
   request in a goroutine of its own, and a handler is between two of its
   requests to GitHub while another one runs.  The token is set. *)

\* the goroutines serving requests
Handlers == {1, 2}

\* a goroutine with no request
Idle ==
    [pc |-> "idle", op |-> "", posted |-> <<>>, date |-> Empty,
     todo |-> <<>>, sha |-> <<>>, held |-> <<>>, saved |-> TRUE]

\* no PUT has been sent yet
NoPut == <<>>

\* net: every goroutine's position (proc), the last PUT sent (put: the sha it
\* carried, the version GitHub held when the sha was read and when the PUT
\* arrived), whether a request to GitHub got no response (faults), and how
\* the last handler that ran to its end left (ended)
Quiet ==
    [proc |-> [h \in Handlers |-> Idle], put |-> NoPut, faults |-> FALSE,
     ended |-> "none"]

InitNet ==
    /\ rev = "monthly"
    /\ token = TRUE
    /\ fitnessRecords = <<>>
    /\ dataFile = <<>>
    /\ dataDir = NoFiles
    /\ github = NoFiles
    /\ last = Ran("main")
    /\ http = NoRequest
    /\ net = Quiet

\* the bodies posted while requests overlap
NetBodies ==
    {[json |-> TRUE, rec |-> FitnessData(d, 1, 0)] : d \in {Today, SameMonth}}

\* for key, records := range grouped: the months in any order, each with the
\* bytes json.MarshalIndent gives for its records
Writes(records) ==
    LET paths == MonthPaths(records)
    IN  {[i \in 1..Cardinality(paths) |->
             [path |-> order[i],
              data |-> MarshalIndent(Grouped(records, order[i]))]] :
         order \in {f \in [1..Cardinality(paths) -> paths] :
                       \A i, j \in DOMAIN f : i # j => f[i] # f[j]}}

\* createFitnessData up to the first request of saveData: the body is
\* decoded, the list upserted and grouped by month
createFitnessData_begin ==
    \E h \in Handlers, reqBody \in NetBodies :
        /\ net.proc[h].pc = "idle"
        /\ LET records == createRecords_upsert(Decode(reqBody))
           IN  /\ WithinBound(records)
               /\ fitnessRecords' = records
               /\ \E todo \in Writes(records) :
                    net' = [net EXCEPT !.proc[h] =
                               [Idle EXCEPT !.pc = IF todo = <<>> THEN "respond"
                                                   ELSE "sha",
                                            !.op = "createFitnessData",
                                            !.posted = <<reqBody>>,
                                            !.todo = todo]]
        /\ UNCHANGED <<rev, token, dataFile, dataDir, github, last, http>>

\* updateGitHubFile, first request: sha := getGitHubFileSHA(token, path),
\* "" when the request got no response
updateGitHubFile_sha ==
    \E h \in Handlers, reached \in BOOLEAN :
        /\ net.proc[h].pc = "sha"
        /\ LET held == getGitHubFileSHA(github, net.proc[h].todo[1].path)
           IN  net' = [net EXCEPT !.proc[h].pc = "put",
                                  !.proc[h].held = held,
                                  !.proc[h].sha = IF reached THEN held ELSE <<>>,
                                  !.faults = @ \/ ~reached]
        /\ UNCHANGED <<rev, token, fitnessRecords, dataFile, dataDir, github,
                       last, http>>

\* updateGitHubFile, second request: the PUT with the sha read, and on to
\* the next month of saveData
updateGitHubFile_put ==
    \E h \in Handlers, arrives \in BOOLEAN :
        /\ net.proc[h].pc = "put"
        /\ LET me == net.proc[h]
               w == me.todo[1]
               now == getGitHubFileSHA(github, w.path)
               repo == PutContents(github, w.path, me.sha, w.data, arrives)
               accepted == arrives /\ me.sha = now
           IN  /\ github' = repo
               /\ net' = [net EXCEPT
                             !.proc[h].pc = IF Len(me.todo) > 1 THEN "sha"
                                            ELSE "respond",
                             !.proc[h].todo = Tail(me.todo),
                             !.proc[h].saved = me.saved /\ accepted,
                             !.put = <<[path |-> w.path, sha |-> me.sha,
                                        held |-> me.held, now |-> now,
                                        accepted |-> accepted]>>,
                             !.faults = @ \/ ~arrives]
        /\ UNCHANGED <<rev, token, fitnessRecords, dataFile, dataDir, last, http>>

\* createFitnessData after saveData: json.NewEncoder(w).Encode(data)
createFitnessData_end ==
    \E h \in Handlers :
        /\ net.proc[h].pc = "respond"
        /\ LET me == net.proc[h]
           IN  last' = Posted(me.posted[1], Encode(<<Decode(me.posted[1])>>),
                              me.saved)
        /\ net' = [net EXCEPT !.proc[h] = Idle, !.ended = "responded"]
        /\ UNCHANGED <<rev, token, fitnessRecords, dataFile, dataDir, github,
                       http>>

\* getFitnessDataByDate up to its request to GitHub
getFitnessDataByDate_begin ==
    \E h \in Handlers, date \in {Today} :
        /\ net.proc[h].pc = "idle"
        /\ net' = [net EXCEPT !.proc[h] =
                      [Idle EXCEPT !.pc = "fetch",
                                   !.op = "getFitnessDataByDate",
                                   !.date = date]]
        /\ UNCHANGED <<rev, token, fitnessRecords, dataFile, dataDir, github,
                       last, http>>

\* loadFromGitHubFile: resp, err := http.Get(url); with err != nil resp is
\* nil and the log call reads resp.StatusCode, which panics; otherwise the
\* handler scans the month's records and responds
loadFromGitHubFile_get ==
    \E h \in Handlers, reached \in BOOLEAN :
        /\ net.proc[h].pc = "fetch"
        /\ LET date == net.proc[h].date
               res == getFitnessDataByDate_monthly(date)
           IN  IF reached
               THEN /\ last' = [Ran("getFitnessDataByDate") EXCEPT
                                   !.status = res.resp.status,
                                   !.body = res.resp.body]
                    /\ net' = [net EXCEPT !.proc[h] = Idle,
                                          !.ended = "responded"]
               ELSE /\ last' = Ran("getFitnessDataByDate")
                    /\ net' = [net EXCEPT !.proc[h] = Idle,
                                          !.ended = "panicked",
                                          !.faults = TRUE]
        /\ UNCHANGED <<rev, token, fitnessRecords, dataFile, dataDir, github,
                       http>>

NextNet ==
    \/ createFitnessData_begin
    \/ updateGitHubFile_sha
    \/ updateGitHubFile_put
    \/ createFitnessData_end
    \/ getFitnessDataByDate_begin
    \/ loadFromGitHubFile_get

SpecNet == InitNet /\ [][NextNet]_vars

----------------------------------------------------------------------------
(* createFitnessData statement by statement on the shared fitnessRecords, in
   the directory revision and in the auto-refresh revision, where the ticker
   goroutine runs loadData beside the handlers.  No lock guards the list.
   Every write of saveData succeeds here. *)

\* a goroutine with no request; old is the list append was given, shared
\* tells that another request was in its handler at the same time
Waiting == [pc |-> "idle", posted |-> <<>>, old |-> <<>>, shared |-> FALSE]

\* every goroutine waiting, no POST answered yet
Unraced == [proc |-> [h \in Handlers |-> Waiting], done |-> {}]

InitRace ==
    /\ rev \in {"dir", "refresh"}
    /\ token = FALSE
    /\ fitnessRecords = <<>>
    /\ dataFile = <<>>
    /\ dataDir = NoFiles
    /\ github = NoFiles
    /\ last = Ran("main")
    /\ http = NoRequest
    /\ net = Unraced

\* json.NewDecoder(r.Body).Decode(&data)
post_decode ==
    \E h \in Handlers, reqBody \in NetBodies :
        /\ net.proc[h].pc = "idle"
        /\ LET busy == \E g \in Handlers : net.proc[g].pc # "idle"
           IN  net' = [net EXCEPT !.proc =
                          [g \in Handlers |->
                              IF g = h
                              THEN [Waiting EXCEPT !.pc = "scan",
                                                   !.posted = <<reqBody>>,
                                                   !.shared = busy]
                              ELSE [net.proc[g] EXCEPT
                                       !.shared = @ \/ net.proc[g].pc # "idle"]]]
        /\ UNCHANGED <<rev, token, fitnessRecords, dataFile, dataDir, github,
                       last, http>>

\* for i, record := range fitnessRecords: the record of the date is
\* replaced where the scan finds it, otherwise the handler goes on to append
post_scan ==
    \E h \in Handlers :
        /\ net.proc[h].pc = "scan"
        /\ LET data == Decode(net.proc[h].posted[1])
               i == FirstIndex(fitnessRecords, data.Date)
           IN  IF i > 0
               THEN /\ fitnessRecords' = [fitnessRecords EXCEPT ![i] = data]
                    /\ net' = [net EXCEPT !.proc[h].pc = "save"]
               ELSE /\ fitnessRecords' = fitnessRecords
                    /\ net' = [net EXCEPT !.proc[h].pc = "append"]
        /\ UNCHANGED <<rev, token, dataFile, dataDir, github, last, http>>

\* append(fitnessRecords, data): the list is read
post_append ==
    \E h \in Handlers :
        /\ net.proc[h].pc = "append"
        /\ net' = [net EXCEPT !.proc[h].pc = "store",
                              !.proc[h].old = fitnessRecords]
        /\ UNCHANGED <<rev, token, fitnessRecords, dataFile, dataDir, github,
                       last, http>>

\* fitnessRecords = append(...): the list read, with data at its end, is
\* assigned
post_store ==
    \E h \in Handlers :
        /\ net.proc[h].pc = "store"
        /\ LET records == Append(net.proc[h].old,
                                 Decode(net.proc[h].posted[1]))
           IN  /\ Len(records) <= MaxRecords
               /\ fitnessRecords' = records
        /\ net' = [net EXCEPT !.proc[h].pc = "save"]
        /\ UNCHANGED <<rev, token, dataFile, dataDir, github, last, http>>

\* saveData(): the list as it is now goes to storage
post_save ==
    \E h \in Handlers :
        /\ net.proc[h].pc = "save"
        /\ IF rev = "refresh"
           THEN /\ dataFile' = saveData_file(fitnessRecords, TRUE)
                /\ dataDir' = dataDir
           ELSE /\ dataDir' = saveData_dir(fitnessRecords,
                                           MonthPaths(fitnessRecords),
                                           dataDir, github, TRUE, FALSE).dir
                /\ dataFile' = dataFile
        /\ net' = [net EXCEPT !.proc[h].pc = "respond"]
        /\ UNCHANGED <<rev, token, fitnessRecords, github, last, http>>

\* json.NewEncoder(w).Encode(data), and the handler returns
post_respond ==
    \E h \in Handlers :
        /\ net.proc[h].pc = "respond"
        /\ LET me == net.proc[h]
               data == Decode(me.posted[1])
           IN  /\ last' = Posted(me.posted[1], Encode(<<data>>), TRUE)
               /\ net' = [net EXCEPT !.proc[h] = Waiting,
                                     !.done = @ \cup {data.Date}]
        /\ UNCHANGED <<rev, token, fitnessRecords, dataFile, dataDir, github,
                       http>>

NextRace ==
    \/ post_decode
    \/ post_scan
    \/ post_append
    \/ post_store
    \/ post_save
    \/ post_respond
    \/ AutoRefresh

SpecRace == InitRace /\ [][NextRace]_vars

----------------------------------------------------------------------------
(* Properties *)

\* the revisions whose createFitnessData scans for the date
Upserting == Revisions \ {"v1"}

\* C1: in the revisions whose POST replaces on a date match, whatever the
\* sequence of POSTs, GETs (with their lazy loadData), refreshes and restarts,
\* fitnessRecords never holds two records with the same date.
C1_OneRecordPerDate ==
    rev \in Upserting =>
        \A i, j \in 1..Len(fitnessRecords) :
            fitnessRecords[i].Date = fitnessRecords[j].Date => i = j

\* a POST of today's second payload has replaced a record that is not the last
\* of a full store
C1_Replaced ==
    /\ rev \in Upserting
    /\ last.op = "createFitnessData"
    /\ Len(fitnessRecords) = MaxRecords
    /\ fitnessRecords[1] = last.body[1]
    /\ last.body[1].Body = 2

\* C2: createFitnessData(d) is an upsert.  When a record of the store has d's
\* date, the first such record is replaced by d at its index, and the length
\* and every other record stay as they were; when none has, d is appended as
\* the last element.  d is the decoded request (stamped in the daily revision).
C2_Upsert ==
    [][(rev \in Upserting /\ last'.op = "createFitnessData") =>
        LET d == last'.body[1]
            old == fitnessRecords
            new == fitnessRecords'
        IN  /\ d.Date = last'.posted[1].rec.Date
            /\ d.Body = last'.posted[1].rec.Body
            /\ IF \E i \in 1..Len(old) : old[i].Date = d.Date
               THEN /\ Len(new) = Len(old)
                    /\ \E k \in 1..Len(old) :
                        /\ old[k].Date = d.Date
                        /\ \A j \in 1..(k - 1) : old[j].Date # d.Date
                        /\ new[k] = d
                        /\ \A j \in 1..Len(old) : j # k => new[j] = old[j]
               ELSE new = Append(old, d)]_vars

\* the dir revision has replaced the first of two records by a different one
C2_ReplacedInPlace ==
    /\ rev = "dir"
    /\ last.op = "createFitnessData"
    /\ Len(fitnessRecords) = 2
    /\ fitnessRecords[1] = last.body[1]
    /\ fitnessRecords[1].Body = 2
    /\ fitnessRecords[2].Date # fitnessRecords[1].Date

\* the records a client may have sent, as createFitnessData stores them
StoredRecords ==
    {Decode(b) : b \in RequestBodies} \cup {Stamped(Decode(b)) : b \in RequestBodies}

\* the bulk listing: GET /api/fitness where it lists fitnessRecords,
\* GET /api/fitness/all in the revisions where /api/fitness is today's record
Listing == IF rev \in Remote THEN getAllFitnessData_lazy ELSE serveFitnessData

\* C3: store-then-retrieve.  After a POST of a JSON record r with a date, all
\* of whose writes were made and succeeded, GET /api/fitness/{r.date} (no write
\* in between) answers 200 with r, in every revision.
C3_StoreThenRetrieve ==
    (/\ last.op = "createFitnessData"
     /\ last.saved
     /\ last.posted[1].json) =>
        serveByDate(last.body[1].Date).resp = Encode(last.body)

\* C4: last write wins.  When a POST, all of whose writes were made and
\* succeeded, carries a date for which the store holds a record with another
\* payload, then afterwards GET /api/fitness/{date} answers with the record
\* of this POST and the bulk listing has exactly one record with the date,
\* in every revision.
C4_LastWriteWins ==
    [][\A d \in StoredRecords :
        (/\ last'.op = "createFitnessData"
         /\ last'.saved
         /\ last'.posted[1].json
         /\ last'.body = <<d>>
         /\ \E i \in 1..Len(fitnessRecords) :
                /\ fitnessRecords[i].Date = d.Date
                /\ fitnessRecords[i].Body # d.Body) =>
            /\ (serveByDate(d.Date).resp = Encode(<<d>>))'
            /\ (Cardinality({i \in 1..Len(Listing.resp.body) :
                               Listing.resp.body[i].Date = d.Date}) = 1)']_vars

\* resp is what a lookup of date in records must answer: 404 when no record
\* has the date, the first record that has it otherwise
Looked(resp, records, date) ==
    IF \A i \in 1..Len(records) : records[i].Date # date
    THEN resp.status = 404 /\ resp.body = <<>>
    ELSE /\ resp.status = 200
         /\ \E i \in 1..Len(records) :
                /\ records[i].Date = date
                /\ \A j \in 1..(i - 1) : records[j].Date # date
                /\ resp.body = <<records[i]>>

\* C5 as stated: where both handlers scan fitnessRecords, GET /api/fitness/D
\* and GET /get?date=D answer 404 whenever no record of the list (after the
\* handler's lazy load) has exactly the date string D, and with the matching
\* record otherwise.
C5_ExactDate ==
    rev \in InMemory =>
        /\ \A D \in Dates \ {Empty} :
            Looked(serveByDate(D).resp, serveByDate(D).store, D)
        /\ \A D \in Dates :
            Looked(serveRawJson(D).resp, serveRawJson(D).store, D)

\* C5 amended: GET /api/fitness/D (where it scans fitnessRecords) answers 404
\* when no record has exactly the date D and with the first record that has it
\* otherwise; GET /get?date=D does the same in every revision, except that an
\* empty date parameter is looked up as today's date.
C5_ExactDateOrToday ==
    /\ rev \in InMemory =>
            \A D \in Dates \ {Empty} :
                Looked(serveByDate(D).resp, serveByDate(D).store, D)
    /\ \A D \in Dates \ {Empty} :
            Looked(serveRawJson(D).resp, serveRawJson(D).store, D)
    /\ Looked(serveRawJson(Empty).resp, serveRawJson(Empty).store, Today)

\* GET /get ran with today's record in the list: an empty date finds it
C5_TodayFound ==
    /\ last.op = "getRawJsonByDate"
    /\ \E i \in 1..Len(fitnessRecords) : fitnessRecords[i].Date = Today
    /\ Len(fitnessRecords) = 2
    /\ serveRawJson(Empty).resp.status = 200
    /\ serveRawJson(NoSuchDay).resp.status = 404

\* the records of a list, and the records in the files of the repository
Elems(records) == {records[i] : i \in 1..Len(records)}

Persisted == UNION {Elems(ReadRecords(github, path)) : path \in DOMAIN github}

\* the stored records a year or month request is answered from: the list
\* after the lazy load in the dir revision, the repository in the others
StoredFor(res) == IF rev = "dir" THEN Elems(res.store) ELSE Persisted

\* body lists exactly the records of the set, each once
Lists(body, set) == Elems(body) = set /\ Len(body) = Cardinality(set)

\* the records of body come in the order they have in records
InOrderOf(body, records) ==
    \A a, b \in 1..Len(body) :
        a < b => \E i, j \in 1..Len(records) :
                    i < j /\ records[i] = body[a] /\ records[j] = body[b]

\* p is a prefix of s, character by character
PrefixOf(p, s) == Len(p) <= Len(s) /\ \A i \in 1..Len(p) : s[i] = p[i]

YearMonth(year, month) == year \o <<"-">> \o month

\* date is a calendar date YYYY-MM-DD with YYYY = year
DateOfYear(date, year) ==
    /\ ~ParseDate(date).err
    /\ Len(year) = 4
    /\ PrefixOf(year \o <<"-">>, date)

\* date is a calendar date YYYY-MM-DD with YYYY = year and MM = month
DateOfMonth(date, year, month) ==
    /\ ~ParseDate(date).err
    /\ Len(year) = 4
    /\ Len(month) = 2
    /\ PrefixOf(YearMonth(year, month) \o <<"-">>, date)

Outcome(resp) == IF resp.status = 200 THEN resp.body ELSE <<>>

\* C10: for every date D, in every reachable state, GET /get?date=D and
\* GET /api/fitness/D have the same outcome: both the same record, or both
\* no record.
C10_SameOutcome ==
    \A D \in Dates \ {Empty} :
        Outcome(serveRawJson(D).resp) = Outcome(serveByDate(D).resp)

\* the path the characters of a date YYYY-MM-DD name: YYYY/MM.json, and
\* YYYY/MM/DD.json in the daily revision
PlaceOf(date) ==
    IF rev = "daily"
    THEN <<SubSeq(date, 1, 4), SubSeq(date, 6, 7), SubSeq(date, 9, 10) \o JsonExt>>
    ELSE <<SubSeq(date, 1, 4), SubSeq(date, 6, 7) \o JsonExt>>

\* the stores saveData of the revision writes when its writes are made
Written ==
    CASE rev = "dir" -> IF token THEN {dataDir, github} ELSE {dataDir}
      [] rev \in Remote -> {github}
      [] OTHER -> {}

C13_LogAndContinue ==
    (last.op = "createFitnessData" /\ ~last.saved) =>
        /\ last.status = 200
        /\ Len(last.body) = 1
        /\ last.body[1].Date = last.posted[1].rec.Date
        /\ last.body[1].Body = last.posted[1].rec.Body
        /\ \E i \in 1..Len(fitnessRecords) : fitnessRecords[i] = last.body[1]

\* the dir revision has answered a POST none of whose writes succeeded
C13_NothingWritten ==
    /\ rev = "dir"
    /\ token
    /\ last.op = "createFitnessData"
    /\ last.posted[1].json
    /\ ~last.saved
    /\ ~ParseDate(last.body[1].Date).err
    /\ dataDir = NoFiles
    /\ github = NoFiles

Storage ==
    CASE rev \in {"v1", "refresh"} ->
            IF dataFile = <<>> THEN {} ELSE Elems(dataFile[1].records)
      [] rev = "dir" ->
            UNION {Elems(ReadRecords(dataDir, path)) : path \in DOMAIN dataDir}
      [] rev \in Remote -> Persisted

\* C20: a POST for date D never removes or alters the persisted record of
\* another date: a record of a date other than D that is in storage before
\* the POST is in storage after it, also when the POST is the first request
\* after a restart.  (Stated for the POSTs that find no unsaved record in
\* fitnessRecords, so that no earlier failed write is made up for.)
C20_OtherDatesKept ==
    [][\A r \in StoredRecords :
        (/\ last'.op = "createFitnessData"
         /\ \A i \in 1..Len(fitnessRecords) :
                ~ParseDate(fitnessRecords[i].Date).err
                    => fitnessRecords[i] \in Storage
         /\ r \in Storage
         /\ r.Date # last'.body[1].Date) => (r \in Storage)']_vars

\* a request has passed the middleware and the router
Routed == DOMAIN http # {}

\* the path begins with the segments of prefix
Under(prefix, path) ==
    Len(path) >= Len(prefix) /\ SubSeq(path, 1, Len(prefix)) = prefix

Url_year == Url_fitness \o <<Seg_year>>

\* C19: in the revisions that register the routes, GET /api/fitness/all is
\* dispatched to getAllFitnessData, GET /api/fitness/year/{year} to
\* getFitnessDataByYear and GET /api/fitness/year/{year}/month/{month} to
\* getFitnessDataByMonth; in every revision no such path is dispatched to
\* getFitnessDataByDate, and POST /api/fitness, and nothing else, is
\* dispatched to createFitnessData.
C19_RoutedByTemplate ==
    Routed =>
        /\ (http.method = "GET" /\ http.path = Url_fitness \o <<Seg_all>>
                /\ rev # "v1")
              => http.handler = "getAllFitnessData"
        /\ (http.method = "GET" /\ Under(Url_year, http.path)
                /\ Len(http.path) = 4 /\ rev \in Calendar)
              => http.handler = "getFitnessDataByYear"
        /\ (http.method = "GET" /\ Under(Url_year, http.path)
                /\ Len(http.path) = 6 /\ http.path[5] = Seg_month
                /\ rev \in Calendar)
              => http.handler = "getFitnessDataByMonth"
        /\ (Under(Url_year, http.path) /\ Len(http.path) > 3)
              => http.handler # "getFitnessDataByDate"
        /\ (http.method = "POST" /\ http.path = Url_fitness)
              <=> http.handler = "createFitnessData"

\* the month route was taken in the dir revision with two records stored
C19_MonthRouteTaken ==
    /\ Routed
    /\ rev = "dir"
    /\ http.handler = "getFitnessDataByMonth"
    /\ Len(fitnessRecords) = 2

\* C18: behind the logging middleware the handler has the body the client
\* sent to read (createFitnessData decodes exactly it), the client gets the
\* status and the body the handler produced, and the logged status is the
\* status sent, 200 when the handler only wrote a body.
C18_Transparent ==
    (Routed /\ http.wrapped) =>
        /\ http.got = http.sent
        /\ last.op = "createFitnessData" => last.posted = http.sent
        /\ http.status = http.produced.status
        /\ http.body = http.produced.body
        /\ http.logged = http.status
        /\ http.produced.status = 200 => http.logged = 200

\* a POST with a JSON body went through the middleware, and was answered 200
C18_PostLogged ==
    /\ Routed
    /\ http.wrapped
    /\ http.handler = "createFitnessData"
    /\ http.sent # <<>>
    /\ http.sent[1].json
    /\ http.logged = 200

\* the month files loadData can read and parse: <year>/<name>.json objects
\* whose content is a JSON list
Loadable ==
    {q \in DOMAIN dataDir :
        Len(q) = 2 /\ HasSuffix(q[2], JsonExt) /\ ~Unmarshal(dataDir[q]).err}

\* the records of the files order[1], order[2], ... one after the other
RECURSIVE Concatenation(_)
Concatenation(order) ==
    IF order = <<>> THEN <<>>
    ELSE Unmarshal(dataDir[Head(order)]).records \o Concatenation(Tail(order))

\* records is the records of every loadable month file, each file once,
\* years and months in the order of their names
LoadedFrom(records) ==
    \E order \in [1..Cardinality(Loadable) -> Loadable] :
        /\ \A i, j \in DOMAIN order : i < j =>
                \/ StrLess(order[i][1], order[j][1])
                \/ order[i][1] = order[j][1] /\ StrLess(order[i][2], order[j][2])
        /\ records = Concatenation(order)

\* C17: loadData of the dir revision, at a start and when getAllFitnessData
\* finds the list empty, leaves in fitnessRecords exactly the records of the
\* readable, parseable *.json month files under the year directories,
\* whatever the list held and whatever else the directory holds.
C17_LoadsReadable ==
    [][(last'.op = "main"
            \/ (last'.op = "getAllFitnessData" /\ fitnessRecords = <<>>))
         => LoadedFrom(fitnessRecords)']_vars

\* a restart over a directory with one good and one unparseable month file,
\* a directory named like a month file, and two files loadData passes over
C17_BadEntriesSkipped ==
    /\ last.op = "main"
    /\ DOMAIN dataDir = FoundPaths
    /\ dataDir[Path_2023_12] = Garbage
    /\ Len(fitnessRecords) = 2

\* C12: every PUT of updateGitHubFile carries the sha of the version GitHub
\* held when getGitHubFileSHA asked for it, and carries none only when
\* GitHub held no version then.
C12_CheckThenWrite ==
    net.put # NoPut => net.put[1].sha = net.put[1].held

\* C14: a handler whose fetch from GitHub got no response ends with a
\* response, not found or a list, and never in a panic.
C14_ReadFailureAnswered ==
    last.op = "getFitnessDataByDate" =>
        /\ net.ended = "responded"
        /\ last.status \in {200, 404}

\* every goroutine is done with its request
Quiescent == \A h \in Handlers : net.proc[h].pc = "idle"

\* C16: once the POSTs that ran, one after the other or overlapping, have
\* all completed, and every request to GitHub got its response, each month
\* object holds the records the list holds for that month.
C16_RemoteCatchesUp ==
    (Quiescent /\ ~net.faults /\ last.op = "createFitnessData") =>
        \A path \in MonthPaths(fitnessRecords) :
            ReadRecords(github, path) = Grouped(fitnessRecords, path)

\* the handlers of the GET routes
Readers ==
    {"getFitnessData", "getAllFitnessData", "getFitnessDataByDate",
     "getRawJsonByDate", "getFitnessDataByYear", "getFitnessDataByMonth"}

\* C23: after a POST whose every storage write succeeded, every record of
\* fitnessRecords, whatever its date string (the records here all carry
\* one), is in persistent storage.
C23_Durable ==
    (/\ last.op = "createFitnessData"
     /\ last.saved
     /\ \A r \in Elems(fitnessRecords) : r.Date # Empty) =>
        \A r \in Elems(fitnessRecords) : r \in Storage

\* C24: a POST whose body cannot be decoded leaves fitnessRecords and every
\* storage unchanged.
C24_UndecodableIgnored ==
    [][(last'.op = "createFitnessData" /\ ~last'.posted[1].json) =>
          /\ fitnessRecords' = fitnessRecords
          /\ dataFile' = dataFile
          /\ dataDir' = dataDir
          /\ github' = github]_vars

\* C25 as stated: in the remote revisions GET /api/fitness/{date} answers 400
\* for a date that does not parse, in any state of the repository, and 404
\* only for a valid date whose object is absent or empty.
C25_NotFoundOnlyAbsent ==
    rev \in Remote =>
        \A date \in Dates \ {Empty} :
            LET resp == serveByDate(date).resp
            IN  /\ ParseDate(date).err => resp = BadRequest
                /\ resp.status = 404 =>
                      /\ ~ParseDate(date).err
                      /\ ReadRecords(github, PlaceOf(date)) = <<>>

\* C25: in the remote revisions GET /api/fitness/{date} answers 400 for a
\* date that does not parse, in any state of the repository, and 404 only
\* for a valid date whose object is absent or holds no record of that date.
C25_NotFoundOnlyMissing ==
    rev \in Remote =>
        \A date \in Dates \ {Empty} :
            LET resp == serveByDate(date).resp
            IN  /\ ParseDate(date).err => resp = BadRequest
                /\ resp.status = 404 =>
                      /\ ~ParseDate(date).err
                      /\ \A r \in Elems(ReadRecords(github, PlaceOf(date))) :
                            r.Date # date

\* a by-date GET ran in the monthly revision while the month object of a
\* valid date holds records, none of them of that date
C25_OtherDayOfMonth ==
    /\ rev = "monthly"
    /\ last.op = "getFitnessDataByDate"
    /\ ReadRecords(github, MonthPath(Today)) # <<>>
    /\ serveByDate(Today).resp.status = 404

\* C26: no GET handler writes the data file, the data directory or the
\* repository, and a GET leaves a non-empty fitnessRecords as it is.
C26_ReadOnly ==
    [][last'.op \in Readers =>
          /\ dataFile' = dataFile
          /\ dataDir' = dataDir
          /\ github' = github
          /\ fitnessRecords # <<>> => fitnessRecords' = fitnessRecords]_vars

\* a GET ran over a list that storage does not hold
C26_ReadWhileUnsaved ==
    /\ last.op \in Readers
    /\ rev = "dir"
    /\ fitnessRecords # <<>>
    /\ dataDir = NoFiles

\* the handler of goroutine h returns in this step
Returns(h) == net.proc[h].pc = "respond" /\ net'.proc[h].pc = "idle"

\* C21: in the auto-refresh revision, when createFitnessData returns from a
\* request that no other request overlapped, the posted record is in
\* fitnessRecords and in fitness_data.json, wherever the ticker's loadData
\* ran.
C21_NotLostToReload ==
    [][\A h \in Handlers :
          (rev = "refresh" /\ Returns(h) /\ ~net.proc[h].shared) =>
              LET data == Decode(net.proc[h].posted[1])
              IN  /\ data \in Elems(fitnessRecords)
                  /\ data \in Storage]_vars

\* C22: in the directory revision, once every createFitnessData that ran,
\* overlapping or not, has returned, every date a POST was answered for has
\* a record in fitnessRecords and no date has two.
C22_Serializable ==
    (rev = "dir" /\ Quiescent) =>
        /\ \A date \in net.done :
              \E r \in Elems(fitnessRecords) : r.Date = date
        /\ \A i, j \in 1..Len(fitnessRecords) :
              fitnessRecords[i].Date = fitnessRecords[j].Date => i = j

====
